---- MODULE Spec2Model ----
(***************************************************************************)
(* AuthService (src/src/auth/auth.service.ts): signUp, signIn,             *)
(* refreshToken, checkEmail and updateUser over a user repository, a       *)
(* bcrypt password hasher and a JWT signer.  Every call is a request that  *)
(* runs in a slot of Callers and is cut at its awaits, so that concurrent  *)
(* requests interleave exactly where the event loop lets them.             *)
(***************************************************************************)
EXTENDS Integers, FiniteSets, Sequences, TLC

\* ---------------------------------------------------------------- bounds
MaxCalls == 3   \* requests started in one behaviour

\* ---------------------------------------------------------------- inputs
Callers   == {"r1", "r2"}
Usernames == {"alice", "bob"}
Emails    == {"a@x.com", "b@x.com"}
\* a plaintext password is a one-symbol sequence, a bcrypt hash a three-symbol one
Passwords == {<<"p@ss1234">>, <<"wrong">>}
Salts     == {"s1"}
Keys      == {"k1"}
RoleKeys  == {"USER", "ADMIN"}

\* ------------------------------------------------------------- UserRole
\* enum UserRole: the member a key names (string enum, member = key)
UserRoleEnum == [k \in RoleKeys |-> k]

\* UserRole[role] with a role the caller supplied
UserRole(role) == UserRoleEnum[role]

\* --------------------------------------------------------------- bcrypt
\* bcrypt.hash(password, salt): the salt is kept in the hash, the digest
\* binds password and salt
Hash(password, salt) == <<"$2b$", salt, <<password, salt>>>>

IsHash(v) == Len(v) = 3 /\ v[1] = "$2b$"

\* bcrypt.compare(password, hash): re-hash with the salt stored in the hash
Compare(password, hash) == IsHash(hash) /\ Hash(password, hash[2]) = hash

\* ------------------------------------------------------------------ JWT
PayloadFields == {"id", "username", "email", "role", "tmdb_key"}

\* createToken's payload: the five fields of the user object; a field the
\* object does not have (undefined) is not in the serialized payload
Payload(user) == [f \in PayloadFields \cap DOMAIN user |-> user[f]]

\* jwtService.sign(payload)
Sign(payload) == [jwt |-> payload]

createToken(user) == Sign(Payload(user))

\* ------------------------------------------------------------- results
TokenResult(accessToken) == [kind |-> "token", accessToken |-> accessToken]

ErrorResult(status, message) ==
  [kind |-> "error", status |-> status, message |-> message]

ValueResult(b) == [kind |-> "value", value |-> b]

ConflictException     == ErrorResult("Conflict", "Username already exists")
InternalServerErrorException == ErrorResult("Internal", "Internal Server Error")
UnauthorizedException ==
  ErrorResult("Unauthorized", "Please check your login credentials")

\* ---------------------------------------------------------------- state
VARIABLES store,    \* the user collection behind userRepository
          nextId,   \* the id the store gives the next saved record
          calls,    \* per request slot: operation, position, locals, result
          started   \* requests started so far

vars == <<store, nextId, calls, started>>

Idle == [op |-> "idle", pc |-> "idle"]

Init ==
  /\ store = {}
  /\ nextId = 1
  /\ calls = [c \in Callers |-> Idle]
  /\ started = 0

\* slots are handed out in order
Before(d, c) == d = "r1" /\ c = "r2"

\* a request enters the first free slot
Enter(c) ==
  /\ calls[c].op = "idle"
  /\ \A d \in Callers : Before(d, c) => calls[d].op # "idle"
  /\ started < MaxCalls
  /\ started' = started + 1

Set(c, rec) == calls' = [calls EXCEPT ![c] = rec]

At(c, op, pc) == calls[c].op = op /\ calls[c].pc = pc

\* ----------------------------------------------------------- repository
\* the errors the store throws: a duplicate key is reported with the code
\* the catch block of signUp tests for, as that string; any other failure
\* with another code
DuplicateKeyError == [code |-> "11000"]
ConnectionError   == [code |-> "ECONNREFUSED"]

\* unique username and unique email of the User entity: rec collides with
\* a stored record other than the one with id self
UniqueViolation(rec, self) ==
  \E r \in store :
    /\ r.id # self
    /\ (r.username = rec.username \/ r.email = rec.email)

\* userRepository.findOne({ where: { email } }): the matching records
FindByEmail(email) == {r \in store : r.email = email}

\* userRepository.findOne: null (the empty set) or one matching record
FindOne(email) ==
  IF FindByEmail(email) = {} THEN {{}}
  ELSE {{r} : r \in FindByEmail(email)}

\* ---------------------------------------------------------------- DTOs
Restrict(full, S) == [f \in S |-> full[f]]

\* SignUpCredentialsDto: role is optional
SignUpDtos ==
  LET full == [username : Usernames, password : {<<"p@ss1234">>}, email : Emails,
               tmdb_key : Keys, role : RoleKeys]
  IN  full \cup {Restrict(d, DOMAIN d \ {"role"}) : d \in full}

SignInDtos == [email : Emails, password : Passwords]

CheckEmailDtos == [email : Emails]

\* RefreshTokenDto: the fields of a prior token, whatever the caller sends
RefreshDtos ==
  [id : {1, 2}, username : {"bob"}, email : {"b@x.com"},
   role : RoleKeys, tmdb_key : Keys]

\* UpdateCredentialDto: any non-empty part of the mutable fields
UpdateFields == {"username", "password", "email", "tmdb_key", "role"}
UpdateDtos ==
  LET full == [username : {"bob"}, password : {<<"wrong">>},
               email : {"b@x.com"}, tmdb_key : Keys, role : RoleKeys]
  IN  {Restrict(d, S \cup {"role"}) :
         d \in full, S \in SUBSET (UpdateFields \ {"tmdb_key"})}

\* --------------------------------------------------------------- signUp
\* (variant: the supplied role is ignored)
SignUpRoleDropped(dto) == UserRoleEnum["USER"]

\* role: role ? UserRole[role] : UserRole.USER
SignUpRole(dto) ==
  IF "role" \in DOMAIN dto THEN UserRole(dto.role) ELSE UserRoleEnum["USER"]

\* userRepository.create({...}) with the hashed password
CreateUser(dto, hashedPassword) ==
  [username |-> dto.username, password |-> hashedPassword,
   email |-> dto.email, tmdb_key |-> dto.tmdb_key, role |-> SignUpRole(dto)]

\* (variant: the catch block tests the PostgreSQL code)
CatchSignUpPostgres(error) ==
  IF error.code = "23505" THEN ConflictException
  ELSE InternalServerErrorException

\* the catch block: which exception a caught error becomes
CatchSignUp(error) ==
  IF error.code = "11000" THEN ConflictException
  ELSE InternalServerErrorException

SignUpCall(c) ==
  \E dto \in SignUpDtos :
    /\ Enter(c)
    /\ Set(c, [op |-> "signUp", pc |-> "hash", dto |-> dto, repo |-> {}])
    /\ UNCHANGED <<store, nextId>>

\* genSalt, hash, create
SignUpHash(c) ==
  /\ At(c, "signUp", "hash")
  /\ \E salt \in Salts :
       LET dto == calls[c].dto
           hashedPassword == Hash(dto.password, salt)
       IN  Set(c, [op |-> "signUp", pc |-> "sign", dto |-> dto,
                   user |-> CreateUser(dto, hashedPassword), repo |-> {}])
  /\ UNCHANGED <<store, nextId, started>>

\* accessToken = await this.createToken(user)
SignUpSign(c) ==
  /\ At(c, "signUp", "sign")
  /\ Set(c, [op |-> "signUp", pc |-> "save", dto |-> calls[c].dto,
             user |-> calls[c].user,
             accessToken |-> createToken(calls[c].user), repo |-> {}])
  /\ UNCHANGED <<store, nextId, started>>

SignUpDone(c, result, errors) ==
  Set(c, [op |-> "signUp", pc |-> "done", dto |-> calls[c].dto,
          result |-> result, thrown |-> errors, repo |-> {"save"}])

\* (variant: the record is inserted without the unique indexes being consulted)
SignUpSaveUnchecked(c) ==
  /\ At(c, "signUp", "save")
  /\ store' = store \cup {[id |-> nextId] @@ calls[c].user}
  /\ nextId' = nextId + 1
  /\ SignUpDone(c, TokenResult(calls[c].accessToken), {})
  /\ UNCHANGED started

\* (variant: save is not awaited, its failure reaches nobody)
SignUpSaveUnawaited(c) ==
  /\ At(c, "signUp", "save")
  /\ \/ /\ ~UniqueViolation(calls[c].user, 0)
        /\ store' = store \cup {[id |-> nextId] @@ calls[c].user}
        /\ nextId' = nextId + 1
        /\ SignUpDone(c, TokenResult(calls[c].accessToken), {})
     \/ /\ UniqueViolation(calls[c].user, 0)
        /\ SignUpDone(c, TokenResult(calls[c].accessToken), {DuplicateKeyError})
        /\ UNCHANGED <<store, nextId>>
     \/ /\ SignUpDone(c, TokenResult(calls[c].accessToken), {ConnectionError})
        /\ UNCHANGED <<store, nextId>>
  /\ UNCHANGED started

\* await this.userRepository.save(user), then return or catch
SignUpSave(c) ==
  /\ At(c, "signUp", "save")
  /\ \/ /\ ~UniqueViolation(calls[c].user, 0)
        /\ store' = store \cup
             {[id |-> nextId] @@ calls[c].user}
        /\ nextId' = nextId + 1
        /\ SignUpDone(c, TokenResult(calls[c].accessToken), {})
     \/ /\ UniqueViolation(calls[c].user, 0)
        /\ SignUpDone(c, CatchSignUp(DuplicateKeyError), {DuplicateKeyError})
        /\ UNCHANGED <<store, nextId>>
     \/ /\ SignUpDone(c, CatchSignUp(ConnectionError), {ConnectionError})
        /\ UNCHANGED <<store, nextId>>
  /\ UNCHANGED started

\* --------------------------------------------------------------- signIn
SignInCall(c) ==
  \E dto \in SignInDtos :
    /\ Enter(c)
    /\ Set(c, [op |-> "signIn", pc |-> "find", dto |-> dto, repo |-> {}])
    /\ UNCHANGED <<store, nextId>>

SignInFind(c) ==
  /\ At(c, "signIn", "find")
  /\ \E user \in FindOne(calls[c].dto.email) :
       Set(c, [op |-> "signIn", pc |-> "verify", dto |-> calls[c].dto,
               user |-> user, repo |-> {"findOne"}])
  /\ UNCHANGED <<store, nextId, started>>

\* (variant: an unknown email gets an error of its own)
SignInResultTelling(user, password) ==
  IF user = {} THEN ErrorResult("NotFound", "No such user")
  ELSE IF \A u \in user : Compare(password, u.password)
       THEN TokenResult(CHOOSE t \in {createToken(u) : u \in user} : TRUE)
       ELSE UnauthorizedException

\* if (user && (await bcrypt.compare(password, user.password)))
SignInResult(user, password) ==
  IF user # {} /\ (\A u \in user : Compare(password, u.password))
  THEN TokenResult(CHOOSE t \in {createToken(u) : u \in user} : TRUE)
  ELSE UnauthorizedException

SignInVerify(c) ==
  /\ At(c, "signIn", "verify")
  /\ Set(c, [op |-> "signIn", pc |-> "done", dto |-> calls[c].dto,
             user |-> calls[c].user,
             result |-> SignInResult(calls[c].user, calls[c].dto.password),
             repo |-> {"findOne"}])
  /\ UNCHANGED <<store, nextId, started>>

\* --------------------------------------------------------- refreshToken
\* (variant: the token is built from the stored record with the dto's email)
RefreshResultLookup(dto) ==
  IF FindByEmail(dto.email) = {} THEN TokenResult(createToken(dto))
  ELSE TokenResult(createToken(CHOOSE r \in FindByEmail(dto.email) : TRUE))

\* createToken(refreshTokenDto as User)
RefreshResult(dto) == TokenResult(createToken(dto))

RefreshToken(c) ==
  \E dto \in RefreshDtos :
    /\ Enter(c)
    /\ Set(c, [op |-> "refreshToken", pc |-> "done", dto |-> dto,
               result |-> RefreshResult(dto), repo |-> {}])
    /\ UNCHANGED <<store, nextId>>

\* ----------------------------------------------------------- checkEmail
CheckEmailCall(c) ==
  \E dto \in CheckEmailDtos :
    /\ Enter(c)
    /\ Set(c, [op |-> "checkEmail", pc |-> "find", dto |-> dto, repo |-> {}])
    /\ UNCHANGED <<store, nextId>>

\* (variant: the test is inverted)
CheckEmailResultInverted(user) == ValueResult(user = {})

\* return user ? true : false
CheckEmailResult(user) == ValueResult(user # {})

CheckEmailFind(c) ==
  /\ At(c, "checkEmail", "find")
  /\ \E user \in FindOne(calls[c].dto.email) :
       Set(c, [op |-> "checkEmail", pc |-> "done", dto |-> calls[c].dto,
               result |-> CheckEmailResult(user), repo |-> {"findOne"}])
  /\ UNCHANGED <<store, nextId, started>>

\* ----------------------------------------------------------- updateUser
\* (variant: the role is left out of the update)
UpdateSetNoRole(dto) == [f \in DOMAIN dto \ {"role"} |-> dto[f]]

\* { ...updateCredentialDto, role: UserRole[role] }; an undefined role is
\* not part of the update
UpdateSet(dto) ==
  [f \in DOMAIN dto |-> IF f = "role" THEN UserRole(dto.role) ELSE dto[f]]

\* a record with the update applied
Merge(r, changes) ==
  [f \in DOMAIN r |-> IF f \in DOMAIN changes THEN changes[f] ELSE r[f]]

\* (variant: the token is built from the user with the update applied)
UpdateTokenUserFresh(user, dto) == Merge(user, UpdateSet(dto))

\* the object createToken is given in updateUser
UpdateTokenUser(user, dto) == user

\* the caller's user object is a record read from the store earlier
UpdateUserCall(c) ==
  \E dto \in UpdateDtos, user \in store :
    /\ Enter(c)
    /\ Set(c, [op |-> "updateUser", pc |-> "update", dto |-> dto,
               user |-> user, repo |-> {}])
    /\ UNCHANGED <<store, nextId>>

UpdateUserDone(c, result) ==
  Set(c, [op |-> "updateUser", pc |-> "done", dto |-> calls[c].dto,
          user |-> calls[c].user, result |-> result, repo |-> {"update"}])

\* await this.userRepository.update(user.id, {...}); createToken(user)
UpdateUserUpdate(c) ==
  /\ At(c, "updateUser", "update")
  /\ LET user    == calls[c].user
         changes == UpdateSet(calls[c].dto)
         targets == {r \in store : r.id = user.id}
     IN  IF \E r \in targets : UniqueViolation(Merge(r, changes), r.id)
         THEN /\ UpdateUserDone(c, ErrorResult("Unhandled", DuplicateKeyError.code))
              /\ UNCHANGED store
         ELSE /\ store' = (store \ targets) \cup
                            {Merge(r, changes) : r \in targets}
              /\ UpdateUserDone(c,
                   TokenResult(createToken(UpdateTokenUser(user, calls[c].dto))))
  /\ UNCHANGED <<nextId, started>>

\* --------------------------------------------------------------- return
\* the response is delivered and the slot is free again
Return(c) ==
  /\ calls[c].pc = "done"
  /\ Set(c, Idle)
  /\ UNCHANGED <<store, nextId, started>>

Next ==
  \E c \in Callers :
    \/ SignUpCall(c)
    \/ SignUpHash(c)
    \/ SignUpSign(c)
    \/ SignUpSave(c)
    \/ SignInCall(c)
    \/ SignInFind(c)
    \/ SignInVerify(c)
    \/ RefreshToken(c)
    \/ CheckEmailCall(c)
    \/ CheckEmailFind(c)
    \/ UpdateUserCall(c)
    \/ UpdateUserUpdate(c)
    \/ Return(c)

Spec == Init /\ [][Next]_vars

\* ================================================================ claims
\* what a token decodes to
Decode(accessToken) == accessToken.jwt

\* request c takes the step from position pc of op to its end
Finishes(c, op, pc) == At(c, op, pc) /\ calls'[c].pc = "done"

EmailStored(email) == \E r \in store : r.email = email

\* C1: a signIn whose email finds a record and whose password matches the
\* record's hash gets a token; a signIn whose email finds no record and one
\* whose password does not match both get the one UnauthorizedException
\* value, and the lookup finds a record exactly when the email is stored.
C1_SignInOutcomes ==
  [][\A c \in Callers :
       /\ (At(c, "signIn", "find") /\ calls'[c].pc = "verify") =>
            /\ calls'[c].user \subseteq store
            /\ (calls'[c].user = {}) = ~EmailStored(calls[c].dto.email)
       /\ Finishes(c, "signIn", "verify") =>
            LET u == calls[c].user
                matches == u # {} /\ \A r \in u :
                             Compare(calls[c].dto.password, r.password)
            IN  /\ matches => /\ calls'[c].result.kind = "token"
                              /\ Decode(calls'[c].result.accessToken).email =
                                   calls[c].dto.email
                /\ ~matches => calls'[c].result = UnauthorizedException]_vars

\* a known email with a wrong password has been turned away
C1_Witness ==
  \E c \in Callers :
    /\ At(c, "signIn", "done")
    /\ calls[c].user # {}
    /\ calls[c].result = UnauthorizedException

C3_SignUpPayload ==
  [][\A c \in Callers :
       (/\ Finishes(c, "signUp", "save")
        /\ ~\E r \in store : \/ r.username = calls[c].dto.username
                             \/ r.email = calls[c].dto.email
        /\ calls'[c].thrown # {ConnectionError}) =>
         /\ calls'[c].result.kind = "token"
         /\ LET payload == Decode(calls'[c].result.accessToken)
                dto == calls[c].dto
            IN  /\ {"username", "email", "role"} \subseteq DOMAIN payload
                /\ payload.username = dto.username
                /\ payload.email = dto.email
                /\ payload.role =
                     IF "role" \in DOMAIN dto THEN dto.role ELSE "USER"]_vars

\* a signUp that named a role other than the default got its token
C3_Witness ==
  \E c \in Callers :
    /\ At(c, "signUp", "done")
    /\ calls[c].result.kind = "token"
    /\ "role" \in DOMAIN calls[c].dto
    /\ calls[c].dto.role = "ADMIN"

\* C4: the password of every stored record is a hash of the Password Hasher.
C4_PasswordAlwaysHashed == \A r \in store : IsHash(r.password)

\* C5: no two stored records share a username or an email, and a signUp
\* request calls no repository method but save.
C5_UniqueRecords ==
  /\ \A r1 \in store, r2 \in store :
       (r1.username = r2.username \/ r1.email = r2.email) => r1 = r2
  /\ \A c \in Callers :
       calls[c].op = "signUp" =>
         calls[c].repo = IF calls[c].pc = "done" THEN {"save"} ELSE {}

\* two overlapping signUps with one email: the later one saved first and
\* the earlier one was refused
C5_Witness ==
  /\ At("r1", "signUp", "done")
  /\ At("r2", "signUp", "done")
  /\ calls["r1"].dto.email = calls["r2"].dto.email
  /\ calls["r1"].result = ConflictException
  /\ calls["r2"].result.kind = "token"

\* the records other than the one with this id
Others(S, id) == {r \in S : r.id # id}

\* the update of request c is one the unique indexes refuse
Collides(c) ==
  \E r \in store : r.id = calls[c].user.id /\
     UniqueViolation(Merge(r, UpdateSet(calls[c].dto)), r.id)

RoleUpdated(c) ==
  /\ \E r \in store' : r.id = calls[c].user.id
  /\ \A r \in store' : r.id = calls[c].user.id =>
                          r.role = calls[c].dto.role
  /\ Others(store', calls[c].user.id) = Others(store, calls[c].user.id)
  /\ calls'[c].result.kind = "token"

\* C6 as stated: every updateUser with a role for an existing id sets the
\* persisted role, leaves the other records alone and returns a token.
C6_Original ==
  [][\A c \in Callers :
       (/\ Finishes(c, "updateUser", "update")
        /\ "role" \in DOMAIN calls[c].dto
        /\ \E r \in store : r.id = calls[c].user.id) => RoleUpdated(c)]_vars

\* C6 amended: it does so when no other record holds a username or email
\* the update carries; when one does, no record changes and no token is
\* returned.
C6_UpdateRole ==
  [][\A c \in Callers :
       (/\ Finishes(c, "updateUser", "update")
        /\ "role" \in DOMAIN calls[c].dto
        /\ \E r \in store : r.id = calls[c].user.id) =>
         IF Collides(c)
         THEN store' = store /\ calls'[c].result.kind = "error"
         ELSE RoleUpdated(c)]_vars

\* an update has changed a role while a second record is stored
C6_Witness ==
  \E c \in Callers :
    /\ At(c, "updateUser", "done")
    /\ calls[c].result.kind = "token"
    /\ calls[c].user.role # calls[c].dto.role
    /\ \E r \in store : r.id = calls[c].user.id /\ r.role = calls[c].dto.role
    /\ Others(store, calls[c].user.id) # {}

\* C7: checkEmail answers true exactly when a record with the email is
\* stored at its lookup, and no step of a checkEmail request changes the
\* store.
C7_CheckEmail ==
  [][\A c \in Callers :
       /\ Finishes(c, "checkEmail", "find") =>
            calls'[c].result = ValueResult(EmailStored(calls[c].dto.email))
       /\ (calls[c].op = "checkEmail" \/ calls'[c].op = "checkEmail") /\
          calls'[c] # calls[c] => store' = store]_vars

C7_Witness ==
  \E c \in Callers :
    /\ At(c, "checkEmail", "done")
    /\ calls[c].result = ValueResult(TRUE)
    /\ EmailStored(calls[c].dto.email)

\* C8: refreshToken calls no repository method and leaves the store as it
\* is, and its token's payload is the five supplied fields, whatever the
\* store holds.
C8_RefreshFrame ==
  [][\A c \in Callers :
       (calls[c].op = "idle" /\ calls'[c].op = "refreshToken") =>
         /\ store' = store
         /\ calls'[c].repo = {}
         /\ calls'[c].result.kind = "token"
         /\ Decode(calls'[c].result.accessToken) =
              [f \in PayloadFields |-> calls'[c].dto[f]]]_vars

\* a token for fields that differ from the stored record with that email
C8_Witness ==
  \E c \in Callers :
    /\ At(c, "refreshToken", "done")
    /\ \E r \in store : /\ r.email = calls[c].dto.email
                        /\ r.role # calls[c].dto.role
                        /\ Decode(calls[c].result.accessToken).role # r.role

\* C9: the token updateUser returns carries id, username, email, role and
\* tmdb_key of the user object it was called with; when the update's role
\* differs from that object's role, the payload's role is not the role
\* now persisted.
C9_StaleToken ==
  [][\A c \in Callers :
       (Finishes(c, "updateUser", "update") /\
        calls'[c].result.kind = "token") =>
         LET payload == Decode(calls'[c].result.accessToken)
             user == calls[c].user
         IN  /\ payload = [f \in PayloadFields |-> user[f]]
             /\ calls[c].dto.role # user.role =>
                  \A r \in store' : r.id = user.id => r.role # payload.role]_vars

C9_Witness ==
  \E c \in Callers :
    /\ At(c, "updateUser", "done")
    /\ calls[c].result.kind = "token"
    /\ Decode(calls[c].result.accessToken).role = "USER"
    /\ \E r \in store : r.id = calls[c].user.id /\ r.role = "ADMIN"

\* C10: a signUp holds its signed token before it saves; it returns the
\* token only in the step whose save added a record with its username and
\* email, and a save that fails ends in an error with no record added.
C10_TokenOnlyAfterSave ==
  [][\A c \in Callers :
       /\ (calls'[c].op = "signUp" /\ calls'[c].pc = "done" /\
           calls[c].pc # "done") => Finishes(c, "signUp", "save")
       /\ Finishes(c, "signUp", "save") =>
            /\ calls[c].accessToken = createToken(calls[c].user)
            /\ IF calls'[c].thrown = {}
               THEN /\ calls'[c].result = TokenResult(calls[c].accessToken)
                    /\ \E r \in store' \ store :
                         /\ r.username = calls[c].dto.username
                         /\ r.email = calls[c].dto.email
                         /\ store' = store \cup {r}
               ELSE /\ calls'[c].result.kind = "error"
                    /\ store' = store]_vars

\* one signUp has its token and its record, another one failed in the
\* store and left no record
C10_Witness ==
  \E c \in Callers, d \in Callers :
    /\ At(c, "signUp", "done") /\ calls[c].result.kind = "token"
    /\ \E r \in store : r.username = calls[c].dto.username
    /\ At(d, "signUp", "done") /\ calls[d].thrown = {ConnectionError}
    /\ calls[d].result = InternalServerErrorException
    /\ ~\E r \in store : r.username = calls[d].dto.username
====
